---------------------------- MODULE Spec2Model ----------------------------
(***************************************************************************)
(* ShopInvt: the sale / inventory consistency logic.                       *)
(*                                                                         *)
(* The remote store holds two collections, inventory and sales.  Sales     *)
(* are recorded and edited through AddSaleForm (two variants: the          *)
(* add-only form and the editable form), deleted through SalesList, and    *)
(* products are added, edited and deleted through AddProductForm and       *)
(* InventoryList.  Every store call is an await: one step of the model,    *)
(* so that calls of different forms (tabs, sessions) interleave.           *)
(***************************************************************************)
EXTENDS Integers, FiniteSets, Sequences, TLC

(***************************************************************************)
(* Bounds of the model.                                                    *)
(***************************************************************************)
\* operations (form submissions and deletions) of a run of one session
MaxOps == 3
\* operations of a run of two sessions, whose store calls interleave
MaxRaceOps == 2

(***************************************************************************)
(* Input sets.                                                             *)
(***************************************************************************)
Forms == {"f1", "f2"}
\* which AddSaleForm each sale dialog mounts
Variant(f) == IF f = "f1" THEN "editable" ELSE "addOnly"
ProductIds == {"p1", "p2", "p3"}
SaleIds == 1..(IF MaxOps > MaxRaceOps THEN MaxOps ELSE MaxRaceOps)
\* <<name, price, cost>> a product form may submit (price, cost >= 0.01)
Details == {<<"Gadget", 20, 15>>}
\* stockQuantity values a product form may submit (integers >= 0)
StockInputs == {5}
\* quantities a sale form may submit (positive integers)
Quantities == {3, 8}
Dates == {"2024-06-01"}

(***************************************************************************)
(* Toast messages, as written in the source.                               *)
(***************************************************************************)
ToastNotLoggedIn == "You must be logged in to record a sale."
ToastNoProduct == "Selected product not found."
ToastFetchFailed == "Failed to fetch current inventory."
ToastNoStockUpdate == "Not enough stock to update the sale."
ToastUpdateFailed == "Failed to update sale."
ToastStockWarnUpdate == "Sale updated but failed to update stock."
ToastAdjusted == "Inventory adjusted."
ToastUpdated == "Sale updated!"
ToastInsertFailed == "Failed to record sale."
ToastNoStockInsert == "Not enough stock for this sale."
ToastStockWarnInsert == "Sale was recorded, but inventory was not updated."
ToastInvUpdated == "Inventory updated."
ToastRecorded == "Sale recorded!"
ToastRecordedAddOnly == "Sale recorded successfully!"
ToastSaleDeleted == "Sale deleted"
ToastSaleDeleteFailed == "Failed to delete sale."
ToastProductNotLoggedIn == "You must be logged in to manage products."
ToastProductUpdated == "Product updated successfully!"
ToastProductUpdateFailed == "Failed to update product."
ToastProductAdded == "Product added successfully!"
ToastProductAddFailed == "Failed to add product."
ToastProductDeleted == "product deleted"
ToastProductDeleteFailed == "Failed to delete product."

VARIABLES
    inventory,    \* the store's inventory collection: product id -> row
    sales,        \* the store's sales collection: sale id -> row
    nextSaleId,   \* the id the store gives to the next inserted sale
    form,         \* the sale forms: form id -> component state
    productForm,  \* the product form (AddProductForm) component state
    sessions,     \* 1: one session, whose dialogs are modal; 2: two sessions
    opsLeft,      \* operations the run may still start
    toasts,       \* the notifications the last step put on screen
    lastOk,       \* history: the call of the last step succeeded (TRUE for
                  \* a step that makes no call)
    plainRun,     \* history: every call so far succeeded and no product
                  \* was added, edited or deleted
    traceAt,      \* history: how far the run has followed the worked trace
                  \* (record 3 Widgets, edit the sale to 8, delete it): the
                  \* number of its operations done, or -1 once the run left it
    lastEdit,     \* history: the last completed Update that kept its
                  \* product, while the store is as that Update left it
    accounts,     \* the auth service's users (account-deletion function)
    handler,      \* the account-deletion function: the request being served
    dash,         \* the Dashboard component: the sales it loaded and what
                  \* it computed from them
    auth,         \* the auth client: its session and the events it sent
    gate,         \* the route guards: guard -> component state
    flow,         \* Header.handleDeleteAccount: the component's deleting
                  \* flag, the handler's position and what it did
    pager         \* a list component: its rows, filters and current page

shopVars == <<inventory, sales, nextSaleId, form, productForm, sessions, opsLeft, toasts, lastOk, plainRun, traceAt, lastEdit>>

\* the variables of the components outside the sale / inventory forms
nonShopVars == <<accounts, handler, dash, auth, gate, flow, pager>>

\* the variables of the client components outside the forms and the dashboard
clientVars == <<auth, gate, flow, pager>>

\* everything but the client components
backendVars == <<shopVars, accounts, handler, dash>>

vars == <<shopVars, nonShopVars>>

(***************************************************************************)
(* Account-deletion function (rapid-service): requests and its start.      *)
(***************************************************************************)
\* requests the function serves in a run
MaxRequests == 2

Users == {"u1", "u2"}
Methods == {"OPTIONS", "POST", "GET", "DELETE"}
Tokens == {"t1", "t2", "bad"}
\* the user a token resolves to at the auth service ("": none)
TokenSubject(t) == IF t = "t1" THEN "u1" ELSE IF t = "t2" THEN "u2" ELSE ""

\* the Authorization header: the text up to and with its first space, and
\* the rest; the header that is not sent reads as the empty string
NoHeader == [scheme |-> "", rest |-> ""]
AuthHeaders ==
    {NoHeader} \cup
    [scheme : {"Bearer ", "bearer ", "Basic "}, rest : Tokens]

\* request bodies: text that is no JSON, the JSON null, a JSON number, and
\* JSON objects without user_id or with a user_id string
Bodies ==
    {[kind |-> k, hasUserId |-> FALSE, user_id |-> ""] :
        k \in {"unparsable", "null", "number", "object"}}
    \cup [kind : {"object"}, hasUserId : {TRUE}, user_id : {""} \cup Users]

Requests == [method : Methods, auth : AuthHeaders, body : Bodies]

NoRequest == [method |-> "", auth |-> NoHeader,
              body |-> [kind |-> "", hasUserId |-> FALSE, user_id |-> ""]]

\* status 0: no response yet
IdleHandler ==
    [pc |-> "idle", req |-> NoRequest, jwt |-> "", user |-> "", status |-> 0,
     cors |-> FALSE, deleted |-> "", served |-> 0]

(***************************************************************************)
(* Dashboard: the sales it may load.                                       *)
(***************************************************************************)
\* sales of the catalogue below the dashboard loads
MaxBase == 12
\* further sales, of any name, profit and date below, it loads before them
MaxExtras == 2

\* new Date(): June 2024 (getMonth() counts from 0)
Now == [year |-> 2024, month |-> 5]

\* product names of at most 10 characters; "Blue Paint" has 10
BaseNames ==
    <<"Pen", "Blue Paint", "Stapler", "Notebook", "Eraser", "Ruler", "Marker",
      "Glue", "Scissors", "Folder", "Envelope", "Tape", "Clip", "Chalk">>

\* a catalogue of sales of this month, one per name, profits not in order
BaseSale(i) ==
    [productName |-> BaseNames[i],
     quantity |-> 1 + (i % 3),
     totalAmount |-> 200 + 10 * i,
     profit |-> 10 * ((7 * i) % 15),
     date |-> "2024-06-01"]

BaseSales(n) == [i \in 1..n |-> BaseSale(i)]

\* a name of the catalogue, and two names that agree on their first 10
\* characters; a loss and a gain; this month, this year, last year
ExtraSales ==
    [productName : {"Pen", "Wireless Mouse A", "Wireless Mouse B"},
     quantity : {2},
     totalAmount : {600},
     profit : {-20, 500},
     date : {"2024-06-15", "2024-02-10", "2023-06-15"}]

RECURSIVE SeqsUpTo(_, _)
\* the sequences over S of length at most n
SeqsUpTo(S, n) ==
    IF n = 0 THEN {<<>>}
    ELSE LET shorter == SeqsUpTo(S, n - 1)
         IN shorter \cup {Append(q, x) : q \in shorter, x \in S}

\* the sales a dashboard may have loaded
SalesInputs ==
    {extra \o BaseSales(n) : extra \in SeqsUpTo(ExtraSales, MaxExtras), n \in 0..MaxBase}

EmptyDashboard == [sales |-> <<>>, calc |-> "none", top |-> <<>>, csv |-> <<>>]

(***************************************************************************)
(* The store at the start: two products in stock, no sale.                 *)
(***************************************************************************)
InitInventory ==
    [p \in {"p1", "p2"} |->
        IF p = "p1"
        THEN [name |-> "Widget", price |-> 100, cost |-> 60,
              stock_quantity |-> 10, reorder_level |-> 5]
        ELSE [name |-> "Gadget", price |-> 20, cost |-> 15,
              stock_quantity |-> 3, reorder_level |-> 1]]

NoSales == [s \in {} |-> 0]

\* "no product": selectedProduct = null
NoProduct == [id |-> "", name |-> "", price |-> 0, cost |-> 0, stockQuantity |-> 0]

\* "no sale": existingSale = undefined
NoSale == [id |-> 0, productId |-> "", productName |-> "", quantity |-> 0,
           totalAmount |-> 0, profit |-> 0, date |-> ""]

\* the products a sale form loads: rows of inventory mapped to Product
LoadProducts(inv) ==
    [p \in DOMAIN inv |->
        [id |-> p, name |-> inv[p].name, price |-> inv[p].price,
         cost |-> inv[p].cost, stockQuantity |-> inv[p].stock_quantity]]

NoProducts == [p \in {} |-> NoProduct]

\* a sales row mapped to the client's Sale (SalesList.fetchSales)
ToSale(id, row) ==
    [id |-> id, productId |-> row.product_id, productName |-> row.product_name,
     quantity |-> row.quantity, totalAmount |-> row.total_amount,
     profit |-> row.profit, date |-> row.date]

ClosedForm(f) ==
    [pc |-> "closed", variant |-> Variant(f), products |-> NoProducts,
     existingSale |-> NoSale, productId |-> "", quantity |-> 0, date |-> "",
     selectedProduct |-> NoProduct, total |-> 0, profit |-> 0,
     currentStock |-> 0, newStock |-> 0, written |-> 0]

(***************************************************************************)
(* Client components outside the forms: route guards, account deletion,    *)
(* list pagination.  Their data and their state before they are used.      *)
(***************************************************************************)
MaxAuthEvents == 2
MaxMounts == 2
MaxClicks == 3
MaxRows == 16

\* the auth client's session: none (null), or a session object
NoSession == ""
AuthSessions == {"s1", "s2"}

\* the two route guards of the repository, the same code twice
Guards == {"ProtectedLayout", "RequireAuth"}

\* a guard that is not on screen; useState(null), useState(true)
UnmountedGate ==
    [mounted |-> FALSE, session |-> NoSession, loading |-> TRUE,
     lookup |-> "idle", result |-> NoSession, route |-> "/dashboard", mounts |-> 0]

\* the Header before Delete Account is clicked; useState(false)
IdleFlow ==
    [pc |-> "idle", deleting |-> FALSE, confirmed |-> FALSE, user |-> "",
     token |-> "", sent |-> NoRequest, rpc |-> "none", signedOut |-> FALSE,
     route |-> "/dashboard", toast |-> "", clicks |-> 0]

\* the two paginated lists
Lists == {"SalesList", "InventoryList"}

\* a list with no rows; useState(""), useState(1)
EmptyPager(list) ==
    [list |-> list, matching |-> 0, other |-> 0, searchOn |-> FALSE,
     dateOn |-> FALSE, currentPage |-> 1]

ClientAtRest ==
    /\ auth = [session |-> NoSession, events |-> 0]
    /\ gate = [g \in Guards |-> UnmountedGate]
    /\ flow = IdleFlow
    /\ pager = EmptyPager("SalesList")

\* no Update to remember
NoEdit == [sale |-> 0, product |-> "", from |-> 0, to |-> 0, stockBefore |-> 0]

ClosedProductForm ==
    [pc |-> "closed", editId |-> "", name |-> "", price |-> 0, cost |-> 0,
     stockQuantity |-> 0, reorderLevel |-> 5]

Init ==
    /\ inventory = InitInventory
    /\ sales = NoSales
    /\ nextSaleId = 1
    /\ form = [f \in Forms |-> ClosedForm(f)]
    /\ productForm = ClosedProductForm
    /\ sessions \in {1, 2}
    /\ opsLeft = IF sessions = 1 THEN MaxOps ELSE MaxRaceOps
    /\ toasts = {}
    /\ lastOk = TRUE
    /\ plainRun = TRUE
    /\ traceAt = IF sessions = 1 THEN 0 ELSE -1
    /\ lastEdit = NoEdit
    /\ accounts = Users
    /\ handler = IdleHandler
    /\ dash = EmptyDashboard
    /\ ClientAtRest

(***************************************************************************)
(* Store helpers.                                                          *)
(***************************************************************************)
\* update ... eq("id", id): rows that do not exist are left alone, no error
SetStock(inv, id, value) ==
    IF id \in DOMAIN inv
    THEN [inv EXCEPT ![id].stock_quantity = value]
    ELSE inv

PutRow(coll, id, row) ==
    [k \in DOMAIN coll \cup {id} |-> IF k = id THEN row ELSE coll[k]]

DropRow(coll, id) ==
    [k \in DOMAIN coll \ {id} |-> coll[k]]

\* no dialog is open and no handler is running
Quiescent ==
    /\ \A g \in Forms : form[g].pc = "closed"
    /\ productForm.pc = "closed"

\* a dialog may open, or a row be deleted: in one session the dialogs are
\* modal, so only when nothing else is open
MayStart == opsLeft > 0 /\ (sessions = 1 => Quiescent)

\* the history of a step that made a call
Outcome(ok) ==
    /\ lastOk' = ok
    /\ plainRun' = (plainRun /\ ok)

\* the worked trace: the product, the quantity recorded, the quantity the
\* sale is edited to
WorkedTrace == [product |-> "p1", quantity |-> 3, editQuantity |-> 8]

\* traceAt after a sale form's step that ended a submission: fm is the form
\* before the step, finished says that onSubmit ran to its end
TraceAfterSubmit(fm, finished, ok) ==
    IF ~(finished /\ ok) \/ fm.productId # WorkedTrace.product THEN -1
    ELSE IF traceAt = 0 /\ fm.existingSale = NoSale /\ fm.quantity = WorkedTrace.quantity
    THEN 1
    ELSE IF /\ traceAt = 1 /\ fm.existingSale # NoSale
            /\ fm.existingSale.quantity = WorkedTrace.quantity
            /\ fm.quantity = WorkedTrace.editQuantity
    THEN 2
    ELSE -1

\* traceAt after the deletion of a sale row
TraceAfterDelete(row, ok) ==
    IF /\ traceAt = 2 /\ ok /\ row.product_id = WorkedTrace.product
       /\ row.quantity = WorkedTrace.editQuantity
    THEN 3
    ELSE -1

\* lastEdit after the stock write of a sale form: an Update that kept the
\* product and succeeded in one session is remembered with the quantity it
\* replaced and the stock it found; any other write forgets it
EditAfterStock(fm, ok) ==
    IF /\ ok /\ sessions = 1
       /\ fm.existingSale # NoSale
       /\ fm.productId = fm.existingSale.productId
       /\ fm.productId \in DOMAIN inventory
    THEN [sale |-> fm.existingSale.id,
          product |-> fm.productId,
          from |-> fm.existingSale.quantity,
          to |-> fm.quantity,
          stockBefore |-> inventory[fm.productId].stock_quantity]
    ELSE NoEdit

(***************************************************************************)
(* AddSaleForm: arithmetic of onSubmit.                                    *)
(***************************************************************************)
SaleTotal(product, quantity) == product.price * quantity

\* faulty alternative: the cost is not multiplied by the quantity
SaleProfit_UnitCost(product, quantity) ==
    SaleTotal(product, quantity) - product.cost

SaleProfit(product, quantity) ==
    SaleTotal(product, quantity) - product.cost * quantity

\* faulty alternative: the stock is read from the store when it is written
UpdatedStock_FromStore(product, quantity) ==
    IF product.id \in DOMAIN inventory
    THEN inventory[product.id].stock_quantity - quantity
    ELSE product.stockQuantity - quantity

\* faulty alternative: the edit is taken as a new sale of the whole quantity
QuantityDelta_NewSale(quantity, existing) == quantity

QuantityDelta(quantity, existing) == quantity - existing.quantity

\* faulty alternative: a reduced quantity gives nothing back
NewStock_NoReturn(currentStock, quantityDelta) ==
    IF quantityDelta < 0 THEN currentStock ELSE currentStock - quantityDelta

NewStock(currentStock, quantityDelta) == currentStock - quantityDelta

\* insert branch: updatedStock, from the product as the form loaded it
UpdatedStock(product, quantity) == product.stockQuantity - quantity

\* faulty alternative: the update branch has no stock test (as the add-only insert)
UpdateRejected_Never(newStock) == FALSE

\* editable variant, update branch: if (newStock < 0) reject
UpdateRejected(newStock) == newStock < 0

\* faulty alternative: the editable variant also refuses to sell the last unit
InsertRejected_AtStock(variant, quantity, product) ==
    variant = "editable" /\ quantity >= product.stockQuantity

\* editable variant, insert branch: if (data.quantity > stockQuantity) reject;
\* the add-only variant has no such test
InsertRejected(variant, quantity, product) ==
    variant = "editable" /\ quantity > product.stockQuantity

\* faulty alternative: the error of the primary write is not tested
AfterPrimaryWrite_Unchecked(ok) == "stock"

\* where onSubmit goes after the primary sale write returned
AfterPrimaryWrite(ok) == IF ok THEN "stock" ELSE "open"

(***************************************************************************)
(* AddSaleForm: the component's steps.                                     *)
(***************************************************************************)
\* the dialog opens: the form mounts, takes existingSale from the list and
\* loads the products (the snapshot every later step of this form uses).
\* A load that fails leaves the product list empty; submitting then ends in
\* ToastNoProduct, as it does here for a product that is not in the list
OpenSaleForm(f, sid) ==
    /\ form[f].pc = "closed"
    /\ MayStart
    /\ sid # 0 => (Variant(f) = "editable" /\ sid \in DOMAIN sales)
    /\ LET existing == IF sid = 0 THEN NoSale ELSE ToSale(sid, sales[sid])
       IN form' = [form EXCEPT ![f] =
              [ClosedForm(f) EXCEPT
                 !.pc = "open",
                 !.variant = Variant(f),
                 !.products = LoadProducts(inventory),
                 !.existingSale = existing,
                 !.productId = existing.productId,
                 !.quantity = IF sid = 0 THEN 1 ELSE existing.quantity,
                 !.date = existing.date]]
    /\ toasts' = {}
    /\ lastOk' = TRUE
    /\ UNCHANGED <<nonShopVars, inventory, sales, nextSaleId, productForm, sessions, opsLeft, plainRun, traceAt, lastEdit>>

\* Cancel button: onClose
CancelSale(f) ==
    /\ form[f].pc = "open"
    /\ form' = [form EXCEPT ![f] = ClosedForm(f)]
    /\ toasts' = {}
    /\ lastOk' = TRUE
    /\ UNCHANGED <<nonShopVars, inventory, sales, nextSaleId, productForm, sessions, opsLeft, plainRun, traceAt, lastEdit>>

\* faulty alternative: the submit button is never disabled
SubmitEnabled_Always(fm) == fm.pc # "closed"

\* the submit button: disabled={formState.isSubmitting}
SubmitEnabled(fm) == fm.pc = "open"

\* onSubmit up to its first store call: auth.getUser, selectedProduct,
\* total and profit, and the choice of branch
SubmitSale(f, pid, q, d, userOk) ==
    /\ SubmitEnabled(form[f])
    /\ opsLeft > 0
    /\ opsLeft' = opsLeft - 1
    /\ LET fm == form[f]
           prod == IF pid \in DOMAIN fm.products THEN fm.products[pid] ELSE NoProduct
           filled == [fm EXCEPT !.productId = pid, !.quantity = q, !.date = d,
                                !.selectedProduct = prod, !.total = 0, !.profit = 0,
                                !.currentStock = 0, !.newStock = 0, !.written = 0]
       IN IF ~userOk
          THEN /\ form' = [form EXCEPT ![f] = filled]
               /\ toasts' = {ToastNotLoggedIn}
          ELSE IF prod = NoProduct
          THEN /\ form' = [form EXCEPT ![f] = filled]
               /\ toasts' = {ToastNoProduct}
          ELSE /\ form' = [form EXCEPT ![f] =
                     [filled EXCEPT
                        !.total = SaleTotal(prod, q),
                        !.profit = SaleProfit(prod, q),
                        !.pc = IF fm.existingSale # NoSale THEN "fetch" ELSE "insert"]]
               /\ toasts' = {}
    /\ Outcome(userOk)
    /\ traceAt' = IF form'[f].pc = "open"
                  THEN TraceAfterSubmit(form[f], FALSE, userOk)
                  ELSE traceAt
    /\ UNCHANGED lastEdit
    /\ UNCHANGED <<nonShopVars, inventory, sales, nextSaleId, productForm, sessions>>

\* update branch: re-read the product's stock, compute newStock, test it
FetchStock(f, ok) ==
    /\ form[f].pc = "fetch"
    /\ LET fm == form[f]
           found == ok /\ fm.productId \in DOMAIN inventory
           currentStock == IF found THEN inventory[fm.productId].stock_quantity ELSE 0
           newStock == NewStock(currentStock, QuantityDelta(fm.quantity, fm.existingSale))
       IN /\ form' = [form EXCEPT ![f] =
                IF ~found
                THEN [fm EXCEPT !.pc = "open"]
                ELSE IF UpdateRejected(newStock)
                THEN [fm EXCEPT !.pc = "open", !.currentStock = currentStock,
                                !.newStock = newStock]
                ELSE [fm EXCEPT !.pc = "update", !.currentStock = currentStock,
                                !.newStock = newStock]]
          /\ toasts' = IF ~found THEN {ToastFetchFailed}
                       ELSE IF UpdateRejected(newStock) THEN {ToastNoStockUpdate}
                       ELSE {}
          /\ Outcome(found)
    /\ traceAt' = IF form'[f].pc = "open"
                  THEN TraceAfterSubmit(form[f], FALSE, lastOk')
                  ELSE traceAt
    /\ UNCHANGED lastEdit
    /\ UNCHANGED <<nonShopVars, inventory, sales, nextSaleId, productForm, sessions, opsLeft>>

\* update branch: the primary write, sales.update(...).eq("id", existingSale.id)
UpdateSale(f, ok) ==
    /\ form[f].pc = "update"
    /\ LET fm == form[f]
           sid == fm.existingSale.id
           done == ok /\ sid \in DOMAIN sales
       IN /\ sales' = IF done
                      THEN [sales EXCEPT ![sid] =
                              [@ EXCEPT !.product_id = fm.productId,
                                        !.product_name = fm.selectedProduct.name,
                                        !.quantity = fm.quantity,
                                        !.total_amount = fm.total,
                                        !.profit = fm.profit,
                                        !.date = fm.date]]
                      ELSE sales
          /\ form' = [form EXCEPT ![f] =
                [fm EXCEPT !.pc = AfterPrimaryWrite(done),
                           !.written = IF done THEN sid ELSE 0]]
          /\ toasts' = IF done THEN {} ELSE {ToastUpdateFailed}
          /\ Outcome(done)
    /\ traceAt' = IF form'[f].pc = "open"
                  THEN TraceAfterSubmit(form[f], FALSE, lastOk')
                  ELSE traceAt
    /\ UNCHANGED lastEdit
    /\ UNCHANGED <<nonShopVars, inventory, nextSaleId, productForm, sessions, opsLeft>>

\* insert branch (both variants): the primary write, sales.insert([...]);
\* the editable variant tests the stock right after the insert returned
InsertSale(f, ok) ==
    /\ form[f].pc = "insert"
    /\ LET fm == form[f]
           row == [product_id |-> fm.productId,
                   product_name |-> fm.selectedProduct.name,
                   quantity |-> fm.quantity,
                   total_amount |-> fm.total,
                   cost |-> fm.selectedProduct.cost,
                   profit |-> fm.profit,
                   date |-> fm.date]
           rejected == InsertRejected(fm.variant, fm.quantity, fm.selectedProduct)
       IN IF ok
          THEN /\ sales' = PutRow(sales, nextSaleId, row)
               /\ nextSaleId' = nextSaleId + 1
               /\ form' = [form EXCEPT ![f] =
                     [fm EXCEPT !.pc = IF rejected THEN "open" ELSE AfterPrimaryWrite(TRUE),
                                !.written = nextSaleId]]
               /\ toasts' = IF rejected THEN {ToastNoStockInsert} ELSE {}
          ELSE /\ form' = [form EXCEPT ![f] = [fm EXCEPT !.pc = AfterPrimaryWrite(FALSE)]]
               /\ toasts' = {ToastInsertFailed}
               /\ UNCHANGED <<sales, nextSaleId>>
    /\ Outcome(ok)
    /\ traceAt' = IF form'[f].pc = "open"
                  THEN TraceAfterSubmit(form[f], FALSE, ok)
                  ELSE traceAt
    /\ lastEdit' = IF ok THEN NoEdit ELSE lastEdit
    /\ UNCHANGED <<nonShopVars, inventory, productForm, sessions, opsLeft>>

\* faulty alternative: the stock write goes to the product the sale referenced
StockTarget_Original(fm) == fm.existingSale.productId

\* the row the stock write names: .eq("id", selectedProduct.id)
StockTarget(fm) == fm.selectedProduct.id

\* the value the stock write carries
StockToWrite(fm) ==
    IF fm.existingSale # NoSale
    THEN fm.newStock
    ELSE UpdatedStock(fm.selectedProduct, fm.quantity)

\* the toasts of the end of onSubmit
FinalToasts(fm, ok) ==
    IF fm.variant = "addOnly"
    THEN {ToastRecordedAddOnly}
    ELSE IF fm.existingSale # NoSale
    THEN {IF ok THEN ToastAdjusted ELSE ToastStockWarnUpdate, ToastUpdated}
    ELSE {IF ok THEN ToastInvUpdated ELSE ToastStockWarnInsert, ToastRecorded}

\* the second call: inventory.update({stock_quantity}).eq("id", selectedProduct.id),
\* then the toasts, onAddSale and onClose
UpdateStock(f, ok) ==
    /\ form[f].pc = "stock"
    /\ LET fm == form[f]
       IN /\ inventory' = IF ok
                          THEN SetStock(inventory, StockTarget(fm), StockToWrite(fm))
                          ELSE inventory
          /\ toasts' = FinalToasts(fm, ok)
    /\ form' = [form EXCEPT ![f] = ClosedForm(f)]
    /\ Outcome(ok)
    /\ traceAt' = TraceAfterSubmit(form[f], TRUE, ok)
    /\ lastEdit' = EditAfterStock(form[f], ok)
    /\ UNCHANGED <<nonShopVars, sales, nextSaleId, productForm, sessions, opsLeft>>

(***************************************************************************)
(* SalesList.handleDelete                                                  *)
(***************************************************************************)
DeleteSale(sid, ok) ==
    /\ sid \in DOMAIN sales
    /\ MayStart
    /\ opsLeft' = opsLeft - 1
    /\ sales' = IF ok THEN DropRow(sales, sid) ELSE sales
    /\ toasts' = IF ok THEN {ToastSaleDeleted} ELSE {ToastSaleDeleteFailed}
    /\ Outcome(ok)
    /\ traceAt' = TraceAfterDelete(sales[sid], ok)
    /\ lastEdit' = IF ok THEN NoEdit ELSE lastEdit
    /\ UNCHANGED <<nonShopVars, inventory, nextSaleId, form, productForm, sessions>>

(***************************************************************************)
(* AddProductForm and InventoryList.handleDelete                           *)
(***************************************************************************)
\* the form's defaultValues: the product being edited, or the blank product
OpenProductForm(pid) ==
    /\ productForm.pc = "closed"
    /\ MayStart
    /\ pid # "" => pid \in DOMAIN inventory
    /\ productForm' =
          IF pid = ""
          THEN [ClosedProductForm EXCEPT !.pc = "open"]
          ELSE [pc |-> "open", editId |-> pid,
                name |-> inventory[pid].name,
                price |-> inventory[pid].price,
                cost |-> inventory[pid].cost,
                stockQuantity |-> inventory[pid].stock_quantity,
                reorderLevel |-> inventory[pid].reorder_level]
    /\ toasts' = {}
    /\ lastOk' = TRUE
    /\ UNCHANGED <<nonShopVars, inventory, sales, nextSaleId, form, sessions, opsLeft, plainRun, traceAt, lastEdit>>

CancelProduct ==
    /\ productForm.pc = "open"
    /\ productForm' = ClosedProductForm
    /\ toasts' = {}
    /\ lastOk' = TRUE
    /\ UNCHANGED <<nonShopVars, inventory, sales, nextSaleId, form, sessions, opsLeft, plainRun, traceAt, lastEdit>>

\* what the user may have in the fields at submit: each field is either left
\* at its default or set to one of the input values
ProductInputs(pf) ==
    { [name |-> dt[1], price |-> dt[2], cost |-> dt[3],
       stockQuantity |-> sq, reorderLevel |-> pf.reorderLevel] :
         dt \in Details \cup {<<pf.name, pf.price, pf.cost>>},
         sq \in StockInputs \cup {pf.stockQuantity} }

\* formSchema (zod): submit runs only on data that passes it.  Prices are
\* whole amounts here, so min(0.01) is >= 1
ValidProduct(data) ==
    /\ Len(data.name) >= 2
    /\ data.price >= 1
    /\ data.cost >= 1
    /\ data.stockQuantity >= 0
    /\ data.reorderLevel >= 1

\* an id of the store for a new inventory row
FreshProductId == CHOOSE p \in ProductIds : p \notin DOMAIN inventory

\* onSubmit: the payload carries every field of the form, stock included
SubmitProduct(data, userOk, ok) ==
    /\ productForm.pc = "open"
    /\ opsLeft > 0
    /\ ValidProduct(data)
    /\ productForm.editId = "" => \E p \in ProductIds : p \notin DOMAIN inventory
    /\ opsLeft' = opsLeft - 1
    /\ LET payload == [name |-> data.name, price |-> data.price, cost |-> data.cost,
                       stock_quantity |-> data.stockQuantity,
                       reorder_level |-> data.reorderLevel]
           id == productForm.editId
           done == userOk /\ ok /\ (id # "" => id \in DOMAIN inventory)
       IN /\ inventory' = IF ~done THEN inventory
                          ELSE IF id # "" THEN [inventory EXCEPT ![id] = payload]
                          ELSE PutRow(inventory, FreshProductId, payload)
          /\ productForm' = IF done THEN ClosedProductForm ELSE productForm
          /\ toasts' = IF ~userOk THEN {ToastProductNotLoggedIn}
                       ELSE IF id # ""
                       THEN {IF done THEN ToastProductUpdated ELSE ToastProductUpdateFailed}
                       ELSE {IF done THEN ToastProductAdded ELSE ToastProductAddFailed}
          /\ lastOk' = done
    /\ plainRun' = FALSE
    /\ traceAt' = -1
    /\ lastEdit' = NoEdit
    /\ UNCHANGED <<nonShopVars, sales, nextSaleId, form, sessions>>

\* faulty alternative: the deletion of a product takes its sales with it
DeleteProduct_Cascade(pid, ok) ==
    /\ pid \in DOMAIN inventory
    /\ MayStart
    /\ opsLeft' = opsLeft - 1
    /\ inventory' = IF ok THEN DropRow(inventory, pid) ELSE inventory
    /\ sales' = IF ok
                THEN [k \in {x \in DOMAIN sales : sales[x].product_id # pid} |-> sales[k]]
                ELSE sales
    /\ toasts' = IF ok THEN {ToastProductDeleted} ELSE {ToastProductDeleteFailed}
    /\ lastOk' = ok
    /\ plainRun' = FALSE
    /\ traceAt' = -1
    /\ lastEdit' = NoEdit
    /\ UNCHANGED <<nonShopVars, nextSaleId, form, productForm, sessions>>

\* faulty alternative: the sales of a deleted product lose their reference
DeleteProduct_SetNull(pid, ok) ==
    /\ pid \in DOMAIN inventory
    /\ MayStart
    /\ opsLeft' = opsLeft - 1
    /\ inventory' = IF ok THEN DropRow(inventory, pid) ELSE inventory
    /\ sales' = IF ok
                THEN [k \in DOMAIN sales |->
                        IF sales[k].product_id = pid
                        THEN [sales[k] EXCEPT !.product_id = ""]
                        ELSE sales[k]]
                ELSE sales
    /\ toasts' = IF ok THEN {ToastProductDeleted} ELSE {ToastProductDeleteFailed}
    /\ lastOk' = ok
    /\ plainRun' = FALSE
    /\ traceAt' = -1
    /\ lastEdit' = NoEdit
    /\ UNCHANGED <<nonShopVars, nextSaleId, form, productForm, sessions>>

\* InventoryList.handleDelete: deletes the inventory row, nothing else
DeleteProduct(pid, ok) ==
    /\ pid \in DOMAIN inventory
    /\ MayStart
    /\ opsLeft' = opsLeft - 1
    /\ inventory' = IF ok THEN DropRow(inventory, pid) ELSE inventory
    /\ toasts' = IF ok THEN {ToastProductDeleted} ELSE {ToastProductDeleteFailed}
    /\ lastOk' = ok
    /\ plainRun' = FALSE
    /\ traceAt' = -1
    /\ lastEdit' = NoEdit
    /\ UNCHANGED <<nonShopVars, sales, nextSaleId, form, productForm, sessions>>

(***************************************************************************)
(* The system.                                                             *)
(***************************************************************************)
Next ==
    \/ \E f \in Forms, sid \in {0} \cup SaleIds : OpenSaleForm(f, sid)
    \/ \E f \in Forms : CancelSale(f)
    \/ \E f \in Forms, pid \in ProductIds, q \in Quantities, d \in Dates,
          userOk \in BOOLEAN : SubmitSale(f, pid, q, d, userOk)
    \/ \E f \in Forms, ok \in BOOLEAN : FetchStock(f, ok)
    \/ \E f \in Forms, ok \in BOOLEAN : UpdateSale(f, ok)
    \/ \E f \in Forms, ok \in BOOLEAN : InsertSale(f, ok)
    \/ \E f \in Forms, ok \in BOOLEAN : UpdateStock(f, ok)
    \/ \E sid \in SaleIds, ok \in BOOLEAN : DeleteSale(sid, ok)
    \/ \E pid \in {""} \cup ProductIds : OpenProductForm(pid)
    \/ CancelProduct
    \/ \E data \in ProductInputs(productForm), userOk \in BOOLEAN, ok \in BOOLEAN :
          SubmitProduct(data, userOk, ok)
    \/ \E pid \in ProductIds, ok \in BOOLEAN : DeleteProduct(pid, ok)

Spec == Init /\ [][Next]_vars

(***************************************************************************)
(* Account-deletion function: the handler, one step per await.             *)
(***************************************************************************)
\* authHeader.startsWith("Bearer ")
StartsWithBearer(h) == h.scheme = "Bearer "

\* authHeader.replace("Bearer ", "") of a header that starts with "Bearer "
Jwt(h) == h.rest

\* the handler returns new Response(..., {status, headers: CORS_HEADERS})
Respond(h, status) == [h EXCEPT !.pc = "done", !.status = status, !.cors = TRUE]

\* the handler throws: it returns no response of its own
Throw(h) == [h EXCEPT !.pc = "threw"]

\* body.user_id of a parsed body that is not null: undefined reads as ""
UserIdOf(body) == IF body.kind = "object" /\ body.hasUserId THEN body.user_id ELSE ""

\* faulty alternative: the user_id is only tested for presence
BodyRejected_PresenceOnly(body, user) == UserIdOf(body) = ""

\* !body.user_id || body.user_id !== user.id
BodyRejected(body, user) == UserIdOf(body) = "" \/ UserIdOf(body) # user

\* a request arrives: the method tests and the Authorization header test
Receive(req) ==
    /\ handler.pc \in {"idle", "done", "threw"}
    /\ handler.served < MaxRequests
    /\ LET h == [IdleHandler EXCEPT !.req = req, !.served = handler.served + 1]
       IN handler' =
             IF req.method = "OPTIONS" THEN Respond(h, 204)
             ELSE IF req.method # "POST" THEN Respond(h, 405)
             ELSE IF ~StartsWithBearer(req.auth) THEN Respond(h, 401)
             ELSE [h EXCEPT !.pc = "getUser", !.jwt = Jwt(req.auth)]
    /\ UNCHANGED <<accounts, shopVars, dash, clientVars>>

\* await userClient.auth.getUser(): the token's user, if the account exists
GetUser(ok) ==
    /\ handler.pc = "getUser"
    /\ LET user == IF ok /\ TokenSubject(handler.jwt) \in accounts
                   THEN TokenSubject(handler.jwt) ELSE ""
       IN handler' = IF user = ""
                     THEN Respond(handler, 401)
                     ELSE [handler EXCEPT !.pc = "json", !.user = user]
    /\ UNCHANGED <<accounts, shopVars, dash, clientVars>>

\* await req.json(), then the user_id test; body.user_id of null throws
ParseBody ==
    /\ handler.pc = "json"
    /\ LET body == handler.req.body
       IN handler' =
             IF body.kind = "unparsable" THEN Respond(handler, 400)
             ELSE IF body.kind = "null" THEN Throw(handler)
             ELSE IF BodyRejected(body, handler.user) THEN Respond(handler, 400)
             ELSE [handler EXCEPT !.pc = "deleteUser"]
    /\ UNCHANGED <<accounts, shopVars, dash, clientVars>>

\* await admin.auth.admin.deleteUser(user.id)
DeleteUser(ok) ==
    /\ handler.pc = "deleteUser"
    /\ LET done == ok /\ handler.user \in accounts
       IN /\ accounts' = IF done THEN accounts \ {handler.user} ELSE accounts
          /\ handler' = IF done
                        THEN [Respond(handler, 200) EXCEPT !.deleted = handler.user]
                        ELSE Respond(handler, 500)
    /\ UNCHANGED <<shopVars, dash, clientVars>>

ShopAtRest ==
    /\ inventory = InitInventory
    /\ sales = NoSales
    /\ nextSaleId = 1
    /\ form = [f \in Forms |-> ClosedForm(f)]
    /\ productForm = ClosedProductForm
    /\ sessions = 1
    /\ opsLeft = 0
    /\ toasts = {}
    /\ lastOk = TRUE
    /\ plainRun = TRUE
    /\ traceAt = -1
    /\ lastEdit = NoEdit

InitService ==
    /\ ShopAtRest
    /\ accounts = Users
    /\ handler = IdleHandler
    /\ dash = EmptyDashboard
    /\ ClientAtRest

NextService ==
    \/ \E req \in Requests : Receive(req)
    \/ \E ok \in BOOLEAN : GetUser(ok)
    \/ ParseBody
    \/ \E ok \in BOOLEAN : DeleteUser(ok)

SpecService == InitService /\ [][NextService]_vars

(***************************************************************************)
(* Dashboard: the derived figures.  Text is text: the CSV lines are        *)
(* strings, built as the template literals build them.                     *)
(***************************************************************************)
Digit(c) ==
    CASE c = "0" -> 0 [] c = "1" -> 1 [] c = "2" -> 2 [] c = "3" -> 3
      [] c = "4" -> 4 [] c = "5" -> 5 [] c = "6" -> 6 [] c = "7" -> 7
      [] c = "8" -> 8 [] c = "9" -> 9

RECURSIVE ParseDigits(_)
ParseDigits(str) ==
    IF Len(str) = 0 THEN 0
    ELSE 10 * ParseDigits(SubSeq(str, 1, Len(str) - 1))
         + Digit(SubSeq(str, Len(str), Len(str)))

\* new Date(s.date) of a "YYYY-MM-DD" date: getFullYear(), getMonth(), getDate()
DateYear(d) == ParseDigits(SubSeq(d, 1, 4))
DateMonth(d) == ParseDigits(SubSeq(d, 6, 7)) - 1
DateDay(d) == ParseDigits(SubSeq(d, 9, 10))

\* toLocaleDateString(), in the en-US locale
LocaleDate(d) ==
    ToString(DateMonth(d) + 1) \o "/" \o ToString(DateDay(d)) \o "/"
       \o ToString(DateYear(d))

\* numbers: a quotient of integers, or NaN, Infinity, -Infinity
Num(n) == [kind |-> "num", num |-> n, den |-> 1]

\* a / b of integers a and b
Quotient(a, b) ==
    IF b # 0 THEN [kind |-> "num", num |-> a, den |-> b]
    ELSE IF a = 0 THEN [kind |-> "NaN", num |-> 0, den |-> 1]
    ELSE IF a > 0 THEN [kind |-> "Infinity", num |-> 0, den |-> 1]
    ELSE [kind |-> "-Infinity", num |-> 0, den |-> 1]

\* x * k of a number x and an integer k > 0
Times(x, k) == IF x.kind = "num" THEN [x EXCEPT !.num = @ * k] ELSE x

Abs(n) == IF n < 0 THEN 0 - n ELSE n

\* x.toFixed(2): the value rounded to hundredths, with two decimals
ToFixed2(x) ==
    IF x.kind # "num" THEN x.kind
    ELSE LET negative == (x.num < 0) # (x.den < 0)
             h == (2 * 100 * Abs(x.num) + Abs(x.den)) \div (2 * Abs(x.den))
             cents == h % 100
         IN (IF negative /\ h # 0 THEN "-" ELSE "")
            \o ToString(h \div 100) \o "."
            \o (IF cents < 10 THEN "0" ELSE "") \o ToString(cents)

\* faulty alternative: the sales of every year
CurrentYearSales_All(rows) == rows

\* sales.filter(s => new Date(s.date).getFullYear() === currentYear)
CurrentYearSales(rows) ==
    SelectSeq(rows, LAMBDA sl : DateYear(sl.date) = Now.year)

\* currentYearSales.filter(s => new Date(s.date).getMonth() === currentMonth)
CurrentMonthSales(rows) ==
    SelectSeq(CurrentYearSales(rows), LAMBDA sl : DateMonth(sl.date) = Now.month)

RECURSIVE SumField(_, _)
\* reduce((sum, s) => sum + s[field], 0)
SumField(rows, field) ==
    IF rows = <<>> THEN 0
    ELSE SumField(SubSeq(rows, 1, Len(rows) - 1), field) + rows[Len(rows)][field]

\* the character U+2026
Ellipsis == "..."

\* the names of a chart are cut at this length
KeyLength == 10
\* the entries a chart shows
TopCount == 10

\* faulty alternative: the whole name is the key
GroupKey_FullName(name) == name

\* productName.length > 10 ? productName.slice(0, 10) + "..." : productName
GroupKey(name) ==
    IF Len(name) > KeyLength THEN SubSeq(name, 1, KeyLength) \o Ellipsis ELSE name

RECURSIVE GroupInto(_, _)
\* grouped[name] = (grouped[name] || 0) + (s.profit || 0), the entries in
\* the order their keys were first set
GroupInto(entries, rows) ==
    IF rows = <<>> THEN entries
    ELSE LET sl == Head(rows)
             k == GroupKey(sl.productName)
             at == {i \in 1..Len(entries) : entries[i].name = k}
         IN IF at = {}
            THEN GroupInto(Append(entries, [name |-> k, amount |-> 0 + sl.profit]),
                           Tail(rows))
            ELSE GroupInto([i \in 1..Len(entries) |->
                               IF i \in at
                               THEN [entries[i] EXCEPT !.amount = @ + sl.profit]
                               ELSE entries[i]],
                           Tail(rows))

RECURSIVE SortInto(_, _)
\* sort((a, b) => b.amount - a.amount): stable, largest amount first
SortInto(sorted, rest) ==
    IF rest = <<>> THEN sorted
    ELSE LET e == Head(rest)
             k == Cardinality({i \in 1..Len(sorted) : sorted[i].amount >= e.amount})
         IN SortInto(SubSeq(sorted, 1, k) \o <<e>> \o SubSeq(sorted, k + 1, Len(sorted)),
                     Tail(rest))

\* slice(0, 10)
SliceTop(entries) ==
    SubSeq(entries, 1, IF Len(entries) < TopCount THEN Len(entries) ELSE TopCount)

\* the body of topMonthSales and of topYearSales
TopSellers(periodSales) == SliceTop(SortInto(<<>>, GroupInto(<<>>, periodSales)))

\* one data row of the report
ReportRow(sl) ==
    LocaleDate(sl.date) \o ",\"" \o sl.productName \o "\"," \o ToString(sl.quantity)
       \o "," \o ToFixed2(Quotient(sl.totalAmount, sl.quantity))
       \o "," \o ToFixed2(Num(sl.totalAmount))
       \o "," \o ToFixed2(Num(sl.profit))

ReportHeader == "Date,Product Name,Quantity,Unit Price,Total Amount,Profit"

\* generateSalesReport: the lines of the csv text
SalesReport(rows) ==
    LET ytd == CurrentYearSales(rows)
        totalQty == SumField(ytd, "quantity")
        totalAmt == SumField(ytd, "totalAmount")
        totalProf == SumField(ytd, "profit")
    IN <<ReportHeader>>
       \o [i \in 1..Len(ytd) |-> ReportRow(ytd[i])]
       \o << "",
             "TOTALS,," \o ToString(totalQty) \o ",," \o ToFixed2(Num(totalAmt))
                \o "," \o ToFixed2(Num(totalProf)),
             "",
             "SUMMARY INFORMATION",
             "Reporting Period," \o ToString(Now.year),
             "Total Products Sold," \o ToString(totalQty),
             "Total Revenue," \o ToFixed2(Num(totalAmt)),
             "Total Profit," \o ToFixed2(Num(totalProf)),
             "Profit Margin,"
                \o ToFixed2(Times(Quotient(totalProf, totalAmt), 100)) \o "%" >>

(***************************************************************************)
(* Dashboard: the component's steps.                                       *)
(***************************************************************************)
\* the charts of the month and of the year are computed from the sales
TopMonthSales ==
    /\ dash.calc = "none"
    /\ dash' = [dash EXCEPT !.calc = "topMonth",
                            !.top = TopSellers(CurrentMonthSales(dash.sales))]
    /\ UNCHANGED <<shopVars, accounts, handler, clientVars>>

TopYearSales ==
    /\ dash.calc = "none"
    /\ dash' = [dash EXCEPT !.calc = "topYear",
                            !.top = TopSellers(CurrentYearSales(dash.sales))]
    /\ UNCHANGED <<shopVars, accounts, handler, clientVars>>

\* the Download Report button
GenerateSalesReport ==
    /\ dash.calc = "none"
    /\ dash' = [dash EXCEPT !.calc = "report", !.csv = SalesReport(dash.sales)]
    /\ UNCHANGED <<shopVars, accounts, handler, clientVars>>

InitDashboard ==
    /\ ShopAtRest
    /\ accounts = Users
    /\ handler = IdleHandler
    /\ \E loaded \in SalesInputs : dash = [EmptyDashboard EXCEPT !.sales = loaded]
    /\ ClientAtRest

NextDashboard ==
    \/ TopMonthSales
    \/ TopYearSales
    \/ GenerateSalesReport

SpecDashboard == InitDashboard /\ [][NextDashboard]_vars

(***************************************************************************)
(* Properties.                                                             *)
(***************************************************************************)
RECURSIVE SumQuantity(_, _)
\* the sum of the quantities of the rows ids of a sales collection
SumQuantity(coll, ids) ==
    IF ids = {} THEN 0
    ELSE LET id == CHOOSE x \in ids : TRUE
         IN coll[id].quantity + SumQuantity(coll, ids \ {id})

\* the quantity sold of product p: over the existing sales that reference it
SoldQuantity(p) ==
    SumQuantity(sales, {id \in DOMAIN sales : sales[id].product_id = p})

\* the step is a step of sale form f
StepOf(f) == form'[f] # form[f]

\* form f is in a Create (insert branch) / an Update (update branch)
IsCreate(fm) == fm.existingSale = NoSale
IsUpdate(fm) == fm.existingSale # NoSale

\* C1: in every quiescent state of a run of sale operations whose calls all
\* succeeded, each product's stored stock is the quantity originally stocked
\* minus the quantities of the existing sales that reference the product.
C1_StockConsistency ==
    (sessions = 1 /\ plainRun /\ Quiescent) =>
        \A p \in DOMAIN inventory :
            inventory[p].stock_quantity =
                InitInventory[p].stock_quantity - SoldQuantity(p)

\* C2: no step of a Create whose quantity exceeds the product's stock writes
\* anything: the sales and the inventory stay as they are, and the Create
\* does not go on to the stock write.
C2_OverStockCreateWritesNothing ==
    [][\A f \in Forms :
          (/\ StepOf(f)
           /\ form[f].pc \in {"insert", "stock"}
           /\ IsCreate(form[f])
           /\ form[f].quantity > form[f].selectedProduct.stockQuantity)
          => (/\ sales' = sales
              /\ inventory' = inventory
              /\ form'[f].pc = "open"
              /\ (lastOk' => toasts' = {ToastNoStockInsert}))]_vars

\* C3: a step that deletes a sale row raises the stock of the product the
\* row references by exactly the row's quantity.
C3_DeleteRestoresStock ==
    [][\A sid \in DOMAIN sales :
          (sid \notin DOMAIN sales' /\ sales[sid].product_id \in DOMAIN inventory)
          => (/\ sales[sid].product_id \in DOMAIN inventory'
              /\ inventory'[sales[sid].product_id].stock_quantity =
                   inventory[sales[sid].product_id].stock_quantity
                   + sales[sid].quantity)]_vars


\* C4: in a Create with 1 <= q <= the product's stock, the insert that
\* succeeds adds exactly one sale row, with totalAmount = price * q and
\* profit = (price - cost) * q, and the stock write that succeeds leaves the
\* product's stock at its previous value minus q: the value the form holds
\* for the product, which in a run of one session is the stored one.
C4_CreateResult ==
    [][\A f \in Forms :
          LET fm == form[f]
              p == fm.selectedProduct
              q == fm.quantity
          IN (StepOf(f) /\ IsCreate(fm) /\ lastOk' /\ 1 <= q /\ q <= p.stockQuantity)
             => /\ fm.pc = "insert" =>
                     /\ DOMAIN sales' = DOMAIN sales \cup {nextSaleId}
                     /\ nextSaleId \notin DOMAIN sales
                     /\ \A id \in DOMAIN sales : sales'[id] = sales[id]
                     /\ sales'[nextSaleId].product_id = p.id
                     /\ sales'[nextSaleId].quantity = q
                     /\ sales'[nextSaleId].total_amount = p.price * q
                     /\ sales'[nextSaleId].profit = (p.price - p.cost) * q
                     /\ inventory' = inventory
                     /\ form'[f].pc = "stock"
                /\ (fm.pc = "stock" /\ p.id \in DOMAIN inventory) =>
                     /\ inventory'[p.id].stock_quantity = p.stockQuantity - q
                     /\ sessions = 1 =>
                           inventory'[p.id].stock_quantity =
                              inventory[p.id].stock_quantity - q
                     /\ \A o \in DOMAIN inventory \ {p.id} : inventory'[o] = inventory[o]
                     /\ sales' = sales]_vars

\* C4 witness: the Create of 3 Widgets (price 100, cost 60, stock 10) is done.
C4_Witness ==
    /\ toasts = {ToastInvUpdated, ToastRecorded}
    /\ lastOk
    /\ DOMAIN sales = {1}
    /\ sales[1].product_id = "p1" /\ sales[1].quantity = 3
    /\ sales[1].total_amount = 300 /\ sales[1].profit = 120
    /\ inventory["p1"].stock_quantity = 7


\* C5: in an Update of sale s to newQty <= currentStock + s.quantity, where
\* currentStock is the stock re-read from the store at submit: the update
\* that succeeds writes totalAmount = price * newQty and profit =
\* (price - cost) * newQty, from the product's price and cost (the product as
\* the form holds it: the store's own in a run of one session) and not from the
\* sale's stored values, and the stock write that succeeds leaves the
\* product's stock at currentStock - (newQty - s.quantity).
C5_UpdateResult ==
    [][\A f \in Forms :
          LET fm == form[f]
              p == fm.selectedProduct
              q == fm.quantity
              s == fm.existingSale
          IN (StepOf(f) /\ IsUpdate(fm) /\ lastOk')
             => /\ (/\ fm.pc = "fetch"
                    /\ q <= inventory[fm.productId].stock_quantity + s.quantity)
                   => /\ form'[f].pc = "update"
                      /\ form'[f].currentStock = inventory[fm.productId].stock_quantity
                      /\ sales' = sales /\ inventory' = inventory
                /\ fm.pc = "update"
                   => /\ q <= fm.currentStock + s.quantity
                      /\ DOMAIN sales' = DOMAIN sales
                      /\ \A id \in DOMAIN sales \ {s.id} : sales'[id] = sales[id]
                      /\ sales'[s.id].product_id = p.id
                      /\ sales'[s.id].quantity = q
                      /\ sales'[s.id].total_amount = p.price * q
                      /\ sales'[s.id].profit = (p.price - p.cost) * q
                      /\ (sessions = 1 /\ p.id \in DOMAIN inventory)
                         => /\ p.price = inventory[p.id].price
                            /\ p.cost = inventory[p.id].cost
                      /\ inventory' = inventory
                      /\ form'[f].pc = "stock"
                /\ (fm.pc = "stock" /\ p.id \in DOMAIN inventory)
                   => /\ p.id = fm.productId
                      /\ inventory'[p.id].stock_quantity =
                            fm.currentStock - (q - s.quantity)
                      /\ \A o \in DOMAIN inventory \ {p.id} : inventory'[o] = inventory[o]
                      /\ sales' = sales]_vars

\* C5 witness: a sale of Widgets recorded at price 100 (cost 60) was edited
\* after the product's price became 20: its total is 20 * quantity, which is
\* not what its stored unit price gives.
C5_Witness ==
    /\ toasts = {ToastAdjusted, ToastUpdated}
    /\ lastOk
    /\ DOMAIN sales = {1}
    /\ sales[1].cost = 60
    /\ sales[1].quantity = 8
    /\ sales[1].total_amount = 160
    /\ sales[1].profit = 40

\* C6: an Update whose currentStock - (newQuantity - oldQuantity) is negative
\* is rejected at the stock test, before any write: the sales and the
\* inventory are unchanged and onSubmit has returned.
C6_UpdateRejectedBeforeWrite ==
    [][\A f \in Forms :
          LET fm == form[f]
          IN (/\ StepOf(f) /\ IsUpdate(fm) /\ fm.pc = "fetch" /\ lastOk'
              /\ inventory[fm.productId].stock_quantity
                    - (fm.quantity - fm.existingSale.quantity) < 0)
             => /\ toasts' = {ToastNoStockUpdate}
                /\ form'[f].pc = "open"
                /\ form'[f].written = 0
                /\ sales' = sales
                /\ inventory' = inventory]_vars

\* C6 witness: the edit of a sale of 3 Gadgets to 8, with no Gadget left in
\* stock, was rejected.
C6_Witness ==
    /\ toasts = {ToastNoStockUpdate}
    /\ form["f1"].pc = "open"
    /\ form["f1"].existingSale.quantity = 3
    /\ form["f1"].quantity = 8
    /\ form["f1"].currentStock = 0
    /\ form["f1"].newStock = -5


\* C7: a run of one session that is a Create followed by the Delete of the
\* sale just created, all calls succeeding, ends with every product's stock
\* at its value before the Create.
C7_CreateDeleteRoundTrip ==
    (/\ sessions = 1 /\ plainRun /\ Quiescent
     /\ opsLeft = MaxOps - 2
     /\ nextSaleId = 2
     /\ sales = NoSales
     /\ toasts = {ToastSaleDeleted})
    => inventory = InitInventory

\* faulty alternative: a product at its reorder level is not low
LowStock_Strict(row) == row.stock_quantity < row.reorder_level

\* the dashboard's low-stock test: p.stockQuantity <= p.reorderLevel
LowStock(row) == row.stock_quantity <= row.reorder_level

\* Dashboard: lowStockProducts
LowStockProducts(inv) == {p \in DOMAIN inv : LowStock(inv[p])}

\* InventoryList: the label of the status cell
StatusLabel(row) ==
    IF row.stock_quantity <= row.reorder_level THEN "Low Stock" ELSE "In Stock"

\* C8: the worked trace.  From the Widget at price 100, cost 60, stock 10,
\* reorder level 5: after the sale of 3 is recorded, totalAmount is 300,
\* profit 120, stock 7 and the product is not low-stock; after the sale is
\* edited to 8, stock is 2, totalAmount 800, profit 320 and the product is
\* low-stock; after the sale is deleted, stock is 10.  (Each is the state
\* with the operation done and the dialog closed.)
C8_WorkedTrace ==
    /\ (Quiescent /\ traceAt = 1) =>
          /\ sales[1].total_amount = 300 /\ sales[1].profit = 120
          /\ inventory[WorkedTrace.product].stock_quantity = 7
          /\ ~LowStock(inventory[WorkedTrace.product])
    /\ (Quiescent /\ traceAt = 2) =>
          /\ sales[1].total_amount = 800 /\ sales[1].profit = 320
          /\ inventory[WorkedTrace.product].stock_quantity = 2
          /\ LowStock(inventory[WorkedTrace.product])
    /\ (Quiescent /\ traceAt = 3) =>
          /\ sales = NoSales
          /\ inventory[WorkedTrace.product].stock_quantity = 10

\* C9: no product's stock is ever negative.
C9_StockNonNegative ==
    \A p \in DOMAIN inventory : inventory[p].stock_quantity >= 0

\* C10: the inventory is written only by a form's stock step, and a form is
\* at its stock step only after its primary sale write returned a row; a
\* primary write that fails changes neither collection and ends onSubmit
\* (the form is back to open, no call pending, nothing retried).
C10_StockWriteAfterPrimary ==
    [][\A f \in Forms :
          LET fm == form[f]
          IN StepOf(f)
             => /\ inventory' # inventory
                   => /\ fm.pc = "stock"
                      /\ fm.written # 0
                /\ form'[f].pc = "stock"
                   => /\ fm.pc \in {"insert", "update"}
                      /\ lastOk'
                      /\ form'[f].written \in DOMAIN sales'
                      /\ sales'[form'[f].written].quantity = fm.quantity
                      /\ sales'[form'[f].written].product_id = fm.productId
                      /\ inventory' = inventory
                /\ (fm.pc \in {"insert", "update"} /\ ~lastOk')
                   => /\ sales' = sales
                      /\ inventory' = inventory
                      /\ nextSaleId' = nextSaleId
                      /\ form'[f].pc = "open"
                      /\ form'[f].written = 0]_vars

\* C10 witness: the primary write of an Update has failed, the form is back
\* to open and the sale is as it was.
C10_Witness ==
    /\ toasts = {ToastUpdateFailed}
    /\ ~lastOk
    /\ form["f1"].pc = "open"
    /\ form["f1"].existingSale.id \in DOMAIN sales
    /\ form["f1"].quantity # sales[form["f1"].existingSale.id].quantity

\* the Update of form fm changes the product the sale references
ChangesProduct(fm) == IsUpdate(fm) /\ fm.productId # fm.existingSale.productId

\* the step is a step of the product form or a product deletion
ProductStep ==
    \/ productForm' # productForm
    \/ DOMAIN inventory' # DOMAIN inventory
    \/ toasts' \subseteq {ToastProductNotLoggedIn, ToastProductUpdated,
                          ToastProductUpdateFailed, ToastProductAdded,
                          ToastProductAddFailed, ToastProductDeleted,
                          ToastProductDeleteFailed} /\ toasts' # {}

\* C11: in every Create and Update path, a stock write that fails after the
\* primary sale write succeeded leaves the sales (the sale is kept) and the
\* inventory as they are, and a warning is shown, which is neither of the
\* success notifications nor a failure notification.
C11_PartialFailureWarning ==
    [][\A f \in Forms :
          (StepOf(f) /\ form[f].pc = "stock" /\ ~lastOk')
          => /\ sales' = sales
             /\ inventory' = inventory
             /\ toasts' \cap {ToastStockWarnUpdate, ToastStockWarnInsert} # {}]_vars

\* C12: in an Update that changes the sale's product from A to B with new
\* quantity n, the stock write that succeeds leaves B's stock at B's current
\* stock, as re-read at submit, minus n.
C12_ProductChangeFullQuantity ==
    [][\A f \in Forms :
          LET fm == form[f]
          IN (/\ StepOf(f) /\ ChangesProduct(fm) /\ fm.pc = "stock" /\ lastOk'
              /\ fm.productId \in DOMAIN inventory)
             => inventory'[fm.productId].stock_quantity =
                   fm.currentStock - fm.quantity]_vars

\* C13: in an Update that changes the sale's product from A to B, no step
\* changes A's inventory row (the sale's quantity is not given back to A), and
\* B is the only product whose row the stock write changes.
C13_OriginalProductUntouched ==
    [][\A f \in Forms :
          LET fm == form[f]
              A == fm.existingSale.productId
              B == fm.productId
          IN (StepOf(f) /\ ChangesProduct(fm) /\ fm.pc \in {"fetch", "update", "stock"})
             => /\ DOMAIN inventory' = DOMAIN inventory
                /\ \A o \in DOMAIN inventory \ {B} : inventory'[o] = inventory[o]
                /\ A \in DOMAIN inventory => inventory'[A] = inventory[A]
                /\ fm.pc # "stock" => inventory' = inventory]_vars

\* C13 witness: the sale of 3 Widgets was changed to Gadgets, both calls
\* succeeding; the Widgets' stock is still the 7 the sale left.
C13_Witness ==
    /\ toasts = {ToastAdjusted, ToastUpdated}
    /\ lastOk
    /\ DOMAIN sales = {1}
    /\ nextSaleId = 2
    /\ sales[1].product_id = "p2"
    /\ "p1" \in DOMAIN inventory
    /\ inventory["p1"].stock_quantity = 7
    /\ inventory["p2"].stock_quantity # InitInventory["p2"].stock_quantity

\* C16: a step of the product form or a product deletion changes no sale
\* row, and a sale row changes only by the update of a sale form that edits
\* that very sale.
C16_SalesAreSnapshots ==
    [][/\ ProductStep => sales' = sales
       /\ \A id \in DOMAIN sales \cap DOMAIN sales' :
             sales'[id] # sales[id]
             => \E f \in Forms : /\ StepOf(f)
                                 /\ form[f].pc = "update"
                                 /\ form[f].existingSale.id = id]_vars

\* C16 witness: the Widget was renamed and repriced after a sale of it; the
\* sale still carries the name, total and profit it was recorded with.
C16_Witness ==
    /\ toasts = {ToastProductUpdated}
    /\ 1 \in DOMAIN sales
    /\ sales[1].product_id = "p1"
    /\ sales[1].product_name = "Widget"
    /\ sales[1].total_amount = 100 * sales[1].quantity
    /\ sales[1].profit = 40 * sales[1].quantity
    /\ inventory["p1"].name = "Gadget"
    /\ inventory["p1"].price = 20
\* C14: the response of the account-deletion function is decided by the
\* first failing check in the order method, credential, body, deletion:
\* OPTIONS gives 204 with the CORS headers, another method than POST 405, a
\* header that is missing or not Bearer or a token that resolves to no user
\* 401, a body that does not parse or whose user_id is missing or not the
\* user's id 400, a failed deletion 500, and 200 otherwise.
C14_HandlerStatus ==
    handler.pc \in {"done", "threw"} =>
        LET r == handler.req
        IN IF r.method = "OPTIONS" THEN handler.status = 204 /\ handler.cors
           ELSE IF r.method # "POST" THEN handler.status = 405
           ELSE IF r.auth.scheme # "Bearer " \/ handler.user = ""
           THEN handler.status = 401
           ELSE IF \/ r.body.kind # "object"
                   \/ ~r.body.hasUserId
                   \/ r.body.user_id # handler.user
           THEN handler.status = 400
           ELSE /\ handler.status \in {200, 500}
                /\ handler.status = 200 <=> handler.deleted # ""

\* C15: an account is deleted only by the deleteUser call of a POST request
\* whose Bearer token resolves to a user and whose body user_id is that
\* user's id; the account deleted is that user's, the response is 200, and
\* a request answered 204, 400, 401 or 405 has deleted nothing.
C15_DeletesOnlyOwnAccount ==
    [][/\ accounts' # accounts
          => LET r == handler.req
                 u == TokenSubject(r.auth.rest)
             IN /\ handler.pc = "deleteUser"
                /\ r.method = "POST"
                /\ r.auth.scheme = "Bearer "
                /\ u \in accounts
                /\ r.body.kind = "object" /\ r.body.hasUserId /\ r.body.user_id = u
                /\ accounts' = accounts \ {u}
                /\ handler'.status = 200
                /\ handler'.deleted = u
       /\ handler'.status \in {204, 400, 401, 405}
          => accounts' = accounts /\ handler'.deleted = ""]_vars

\* C15 witness: the request of u1 for u1's account was served; u1 is gone
\* and u2 is still there.
C15_Witness ==
    /\ handler.pc = "done"
    /\ handler.status = 200
    /\ handler.req.auth = [scheme |-> "Bearer ", rest |-> "t1"]
    /\ handler.req.body.user_id = "u1"
    /\ handler.deleted = "u1"
    /\ accounts = {"u2"}
\* C17: in every state a product is among the dashboard's low-stock
\* products, and labelled Low Stock in the inventory table, if and only if
\* its stock is at most its reorder level.
C17_LowStockFlag ==
    \A p \in DOMAIN inventory :
        /\ p \in LowStockProducts(inventory)
              <=> inventory[p].stock_quantity <= inventory[p].reorder_level
        /\ StatusLabel(inventory[p]) = "Low Stock"
              <=> inventory[p].stock_quantity <= inventory[p].reorder_level

\* C17 witness: a product whose stock equals its reorder level is flagged.
C17_Witness ==
    \E p \in DOMAIN inventory :
        /\ inventory[p].stock_quantity = inventory[p].reorder_level
        /\ p \in LowStockProducts(inventory)
        /\ StatusLabel(inventory[p]) = "Low Stock"

\* the positions, in the sales the dashboard loaded, of the sales of the
\* current year, and of those of the current month of it
YearToDate == {i \in 1..Len(dash.sales) : DateYear(dash.sales[i].date) = 2024}
MonthToDate == {i \in YearToDate : DateMonth(dash.sales[i].date) = 5}

RECURSIVE SumAt(_, _, _)
\* the sum of a field over the rows at the positions ids
SumAt(rows, ids, field) ==
    IF ids = {} THEN 0
    ELSE LET i == CHOOSE x \in ids : TRUE
         IN rows[i][field] + SumAt(rows, ids \ {i}, field)

\* C18: the report of a year with no sale has the totals row
\* TOTALS,,0,,0.00,0.00 and a profit-margin line whose value is a number:
\* neither NaN nor an infinity.
C18_EmptyReportGuarded ==
    (dash.calc = "report" /\ YearToDate = {})
    => /\ Len(dash.csv) = 10
       /\ dash.csv[3] = "TOTALS,,0,,0.00,0.00"
       /\ dash.csv[10] \notin {"Profit Margin,NaN%", "Profit Margin,Infinity%",
                                "Profit Margin,-Infinity%"}

\* C19: the report is, in order: the header row, one data row per sale of
\* the current year (in their order, none for a sale of another year), a
\* blank line, the TOTALS row with the sums of quantity, total amount and
\* profit over those sales, a blank line, and the SUMMARY INFORMATION block
\* with the same totals.
C19_ReportStructure ==
    dash.calc = "report"
    => LET n == Cardinality(YearToDate)
           qty == ToString(SumAt(dash.sales, YearToDate, "quantity"))
           amt == ToFixed2(Num(SumAt(dash.sales, YearToDate, "totalAmount")))
           prof == ToFixed2(Num(SumAt(dash.sales, YearToDate, "profit")))
       IN /\ Len(dash.csv) = n + 10
          /\ dash.csv[1] = "Date,Product Name,Quantity,Unit Price,Total Amount,Profit"
          /\ \A i \in YearToDate :
                dash.csv[1 + Cardinality({j \in YearToDate : j <= i})]
                   = ReportRow(dash.sales[i])
          /\ dash.csv[n + 2] = ""
          /\ dash.csv[n + 3] = "TOTALS,," \o qty \o ",," \o amt \o "," \o prof
          /\ dash.csv[n + 4] = ""
          /\ dash.csv[n + 5] = "SUMMARY INFORMATION"
          /\ dash.csv[n + 6] = "Reporting Period,2024"
          /\ dash.csv[n + 7] = "Total Products Sold," \o qty
          /\ dash.csv[n + 8] = "Total Revenue," \o amt
          /\ dash.csv[n + 9] = "Total Profit," \o prof

\* C19 witness: a report of three loaded sales, one of them of last year:
\* two data rows.
C19_Witness ==
    /\ dash.calc = "report"
    /\ Len(dash.sales) = 3
    /\ dash.sales[2].date = "2023-06-15"
    /\ Len(dash.csv) = 12
    /\ dash.csv[5] = "TOTALS,,4,,810.00,50.00"

\* C20: the top sellers of the month and of the year: at most 10 entries,
\* one per grouping key of the period's sales (the name, or its first 10
\* characters and an ellipsis if it is longer), each with the sum of the
\* profits of the sales of its key, in non-increasing order of amount, no
\* omitted key having a larger amount than a listed one.
C20_TopSellers ==
    dash.calc \in {"topMonth", "topYear"}
    => LET period == IF dash.calc = "topMonth" THEN MonthToDate ELSE YearToDate
           Key(name) == IF Len(name) <= 10 THEN name
                        ELSE SubSeq(name, 1, 10) \o Ellipsis
           keys == {Key(dash.sales[i].productName) : i \in period}
           Amount(k) == SumAt(dash.sales,
                              {i \in period : Key(dash.sales[i].productName) = k},
                              "profit")
           top == dash.top
       IN /\ Len(top) <= 10
          /\ Len(top) = IF Cardinality(keys) < 10 THEN Cardinality(keys) ELSE 10
          /\ \A i \in 1..Len(top) :
                /\ top[i].name \in keys
                /\ top[i].amount = Amount(top[i].name)
          /\ \A i, j \in 1..Len(top) :
                i < j => /\ top[i].name # top[j].name
                         /\ top[i].amount >= top[j].amount
          /\ \A k \in keys \ {top[i].name : i \in 1..Len(top)} :
                \A i \in 1..Len(top) : Amount(k) <= top[i].amount

\* C20 witness: the month's chart of 13 keys: the two Wireless Mouse sales
\* are one entry, the first of the 10 listed.
C20_Witness ==
    /\ dash.calc = "topMonth"
    /\ Len(dash.sales) = 14
    /\ Len(dash.top) = 10
    /\ dash.top[1] = [name |-> "Wireless M...", amount |-> 1000]
    /\ dash.sales[1].productName # dash.sales[2].productName
\* C21: a Create takes the stock from the product as the form loaded it
\* when it opened, whatever the store holds at submit: the editable form
\* rejects the Create exactly when q exceeds that loaded stock, and the stock
\* write that succeeds stores the loaded stock minus q.  So of two Creates
\* that loaded the same stock, the one that writes last decides the stock.
C21_CreateUsesSnapshot ==
    [][\A f \in Forms :
          LET fm == form[f]
              snapshot == fm.products[fm.productId]
          IN (StepOf(f) /\ IsCreate(fm) /\ lastOk' /\ fm.pc \in {"insert", "stock"})
             => /\ fm.selectedProduct = snapshot
                /\ (fm.pc = "insert" /\ fm.variant = "editable")
                   => (form'[f].pc = "open" <=> fm.quantity > snapshot.stockQuantity)
                /\ (fm.pc = "stock" /\ fm.productId \in DOMAIN inventory)
                   => inventory'[fm.productId].stock_quantity =
                         snapshot.stockQuantity - fm.quantity]_vars

\* C21 witness: two Creates of 8 and of 3 Widgets both loaded the stock 10
\* and every call succeeded; the Create of 3 wrote last: the stock is 7.
C21_Witness ==
    /\ sessions = 2 /\ plainRun /\ Quiescent
    /\ toasts = {ToastInvUpdated, ToastRecorded}
    /\ DOMAIN sales = {1, 2}
    /\ \A id \in {1, 2} : sales[id].product_id = "p1"
    /\ {sales[1].quantity, sales[2].quantity} = {3, 8}
    /\ inventory["p1"].stock_quantity = 7

C23_DeleteProductOnly ==
    [][\A pid \in DOMAIN inventory :
          pid \notin DOMAIN inventory'
          => /\ DOMAIN inventory' = DOMAIN inventory \ {pid}
             /\ \A o \in DOMAIN inventory' : inventory'[o] = inventory[o]
             /\ sales' = sales
             /\ SoldQuantity(pid)' = SoldQuantity(pid)]_vars

\* C23 witness: the Widget was deleted; its sale is still there and refers
\* to a product that no longer exists.
C23_Witness ==
    /\ toasts = {ToastProductDeleted}
    /\ "p1" \notin DOMAIN inventory
    /\ 1 \in DOMAIN sales
    /\ sales[1].product_id = "p1"
    /\ sales[1].product_name = "Widget"
    /\ sales[1].total_amount = 100 * sales[1].quantity
\* C24: an Update from q1 to q2 followed by an Update of the same sale back
\* to q1, on the same product and with no other write in between, leaves
\* the stock at its value before the first Update; and an Update that
\* keeps the product and the quantity writes back the stock it read, which
\* in one session is the stock of the store.
C24_UpdateRoundTrip ==
    [][\A f \in Forms :
          LET fm == form[f]
              p == fm.productId
          IN (/\ StepOf(f) /\ fm.pc = "stock" /\ lastOk'
              /\ IsUpdate(fm) /\ p = fm.existingSale.productId
              /\ p \in DOMAIN inventory)
             => /\ (/\ lastEdit # NoEdit
                    /\ lastEdit.sale = fm.existingSale.id
                    /\ lastEdit.product = p
                    /\ fm.existingSale.quantity = lastEdit.to
                    /\ fm.quantity = lastEdit.from)
                   => inventory'[p].stock_quantity = lastEdit.stockBefore
                /\ fm.quantity = fm.existingSale.quantity
                   => /\ inventory'[p].stock_quantity = fm.currentStock
                      /\ sessions = 1 => inventory' = inventory]_vars

\* C24 witness: a sale of 3 Widgets was edited to 8 and then back to 3; the
\* stock, 7 before the first Update, is 7 again.
C24_Witness ==
    /\ Quiescent /\ sessions = 1 /\ plainRun
    /\ lastEdit = [sale |-> 1, product |-> "p1", from |-> 8, to |-> 3, stockBefore |-> 2]
    /\ sales[1].quantity = 3
    /\ inventory["p1"].stock_quantity = 7
\* C25: an edit of a product whose stock field was left as the form showed
\* it leaves the stored stock of the product at its value right before the
\* edit's write, also when a sale of the product was recorded while the
\* form was open.
C25_EditKeepsStock ==
    [][\A pid \in DOMAIN inventory :
          (/\ productForm.pc = "open" /\ productForm.editId = pid
           /\ toasts' = {ToastProductUpdated}
           /\ pid \in DOMAIN inventory'
           /\ inventory'[pid].stock_quantity = productForm.stockQuantity)
          => inventory'[pid].stock_quantity = inventory[pid].stock_quantity]_vars
View_SessionOnly(gt) ==
    IF gt.session = NoSession THEN "navigate" ELSE "outlet"

\* what the guard renders: the placeholder, <Navigate to="/login">, or the
\* protected routes (<Outlet />)
View(gt) ==
    IF gt.loading THEN "placeholder"
    ELSE IF gt.session = NoSession THEN "navigate"
    ELSE "outlet"

\* the route /dashboard is entered: the guard mounts, its effect calls
\* getSession() and subscribes to onAuthStateChange
Mount(g) ==
    /\ ~gate[g].mounted
    /\ gate[g].mounts < MaxMounts
    /\ gate' = [gate EXCEPT ![g] =
          [mounted |-> TRUE, session |-> NoSession, loading |-> TRUE,
           lookup |-> "called", result |-> NoSession, route |-> "/dashboard",
           mounts |-> gate[g].mounts + 1]]
    /\ UNCHANGED <<backendVars, auth, flow, pager>>

\* getSession() reads the auth client's session
GetSession(g) ==
    /\ gate[g].lookup = "called"
    /\ gate' = [gate EXCEPT ![g].lookup = "resolved", ![g].result = auth.session]
    /\ UNCHANGED <<backendVars, auth, flow, pager>>

\* the continuation of getSession(): setSession(session); setLoading(false)
LookupDone(g) ==
    /\ gate[g].lookup = "resolved"
    /\ gate' = [gate EXCEPT ![g] =
          IF gate[g].mounted
          THEN [@ EXCEPT !.lookup = "done", !.session = gate[g].result,
                         !.loading = FALSE]
          ELSE [@ EXCEPT !.lookup = "done"]]
    /\ UNCHANGED <<backendVars, auth, flow, pager>>

\* the auth client changes its session (sign-in, token refresh, sign-out)
\* and calls the listeners of the mounted guards: setSession(session)
AuthStateChange(session) ==
    /\ auth.events < MaxAuthEvents
    /\ auth' = [session |-> session, events |-> auth.events + 1]
    /\ gate' = [g \in Guards |->
          IF gate[g].mounted THEN [gate[g] EXCEPT !.session = session] ELSE gate[g]]
    /\ UNCHANGED <<backendVars, flow, pager>>

\* <Navigate to="/login" replace />: the route changes, the guard unmounts
\* and its listener is unsubscribed
NavigateToLogin(g) ==
    /\ gate[g].mounted
    /\ View(gate[g]) = "navigate"
    /\ gate' = [gate EXCEPT ![g].mounted = FALSE, ![g].route = "/login"]
    /\ UNCHANGED <<backendVars, auth, flow, pager>>

InitAuth ==
    /\ ShopAtRest
    /\ accounts = Users
    /\ handler = IdleHandler
    /\ dash = EmptyDashboard
    /\ auth \in [session : {NoSession} \cup AuthSessions, events : {0}]
    /\ gate = [g \in Guards |-> UnmountedGate]
    /\ flow = IdleFlow
    /\ pager = EmptyPager("SalesList")

NextAuth ==
    \/ \E g \in Guards : Mount(g)
    \/ \E g \in Guards : GetSession(g)
    \/ \E g \in Guards : LookupDone(g)
    \/ \E session \in {NoSession} \cup AuthSessions : AuthStateChange(session)
    \/ \E g \in Guards : NavigateToLogin(g)

SpecAuth == InitAuth /\ [][NextAuth]_vars

\* C27: a mounted guard renders the protected routes only when its session
\* lookup has completed and its session is not null; until the lookup has
\* completed it renders the placeholder; with the lookup completed and a
\* null session, also one set by a later sign-out, it renders the
\* navigation to /login; a guard that left the screen left it for /login.
C27_ProtectedGating ==
    \A g \in Guards :
       /\ gate[g].mounted =>
             /\ View(gate[g]) = "outlet"
                => (gate[g].lookup = "done" /\ gate[g].session # NoSession)
             /\ gate[g].lookup # "done" => View(gate[g]) = "placeholder"
             /\ (gate[g].lookup = "done" /\ gate[g].session = NoSession)
                => View(gate[g]) = "navigate"
       /\ (~gate[g].mounted /\ gate[g].mounts > 0) => gate[g].route = "/login"

\* C27 witness: the lookup of ProtectedLayout returned a session, a sign-out
\* followed, and the guard renders the navigation to /login.
C27_Witness ==
    /\ gate["ProtectedLayout"].mounted
    /\ gate["ProtectedLayout"].lookup = "done"
    /\ gate["ProtectedLayout"].result # NoSession
    /\ gate["ProtectedLayout"].session = NoSession
    /\ auth.session = NoSession
    /\ View(gate["ProtectedLayout"]) = "navigate"

(***************************************************************************)
(* Header.handleDeleteAccount: the client side of the account deletion.    *)
(***************************************************************************)
ToastVerifyFailed == "Unable to verify user session."
ToastNoToken == "No access token found."
ToastAccountDeleted == "Account deleted successfully."
ToastAccountDeleteFailed == "Account deletion failed"

\* one run of the handler ends: the notification and setDeleting(false)
FlowAbort(fl, toast) == [fl EXCEPT !.pc = "idle", !.deleting = FALSE, !.toast = toast]

\* faulty alternative: only the error of getSession is tested
TokenMissing_ErrorOnly(error, token) == error

\* if (sessionError || !session?.access_token); "" is the token of a null
\* session and of a session without access_token
TokenMissing(error, token) == error \/ token = ""

\* the Delete Account button (disabled while deleting) and window.confirm
ClickDeleteAccount(confirmed) ==
    /\ flow.pc = "idle"
    /\ ~flow.deleting
    /\ flow.route = "/dashboard"
    /\ flow.clicks < MaxClicks
    /\ flow' = IF confirmed
               THEN [IdleFlow EXCEPT !.pc = "getUser", !.deleting = TRUE,
                                     !.confirmed = TRUE,
                                     !.clicks = flow.clicks + 1]
               ELSE [IdleFlow EXCEPT !.clicks = flow.clicks + 1]
    /\ UNCHANGED <<backendVars, auth, gate, pager>>

\* await supabase.auth.getUser(); user "" is null
FlowGetUser(error, user) ==
    /\ flow.pc = "getUser"
    /\ flow' = IF error \/ user = ""
               THEN FlowAbort(flow, ToastVerifyFailed)
               ELSE [flow EXCEPT !.pc = "getSession", !.user = user]
    /\ UNCHANGED <<backendVars, auth, gate, pager>>

\* await supabase.auth.getSession()
FlowGetSession(error, token) ==
    /\ flow.pc = "getSession"
    /\ flow' = IF TokenMissing(error, token)
               THEN FlowAbort(flow, ToastNoToken)
               ELSE [flow EXCEPT !.pc = "invoke", !.token = token]
    /\ UNCHANGED <<backendVars, auth, gate, pager>>

\* supabase.functions.invoke("rapid-service", ...): the request goes out
InvokeFunction ==
    /\ flow.pc = "invoke"
    /\ flow' = [flow EXCEPT
          !.pc = "awaitInvoke",
          !.sent = [method |-> "POST",
                    auth |-> [scheme |-> "Bearer ", rest |-> flow.token],
                    body |-> [kind |-> "object", hasUserId |-> TRUE,
                              user_id |-> flow.user]]]
    /\ UNCHANGED <<backendVars, auth, gate, pager>>

\* the invocation returns: if (fnError) throw fnError, caught below
InvokeReturns(fnError) ==
    /\ flow.pc = "awaitInvoke"
    /\ flow' = IF fnError
               THEN [flow EXCEPT !.pc = "finally", !.rpc = "error",
                                 !.toast = ToastAccountDeleteFailed]
               ELSE [flow EXCEPT !.pc = "signOut", !.rpc = "ok",
                                 !.toast = ToastAccountDeleted]
    /\ UNCHANGED <<backendVars, auth, gate, pager>>

\* await supabase.auth.signOut(): its result is not looked at
FlowSignOut(error) ==
    /\ flow.pc = "signOut"
    /\ flow' = [flow EXCEPT !.pc = "navigate", !.signedOut = TRUE]
    /\ UNCHANGED <<backendVars, auth, gate, pager>>

\* navigate("/signup", { replace: true })
NavigateToSignup ==
    /\ flow.pc = "navigate"
    /\ flow' = [flow EXCEPT !.pc = "finally", !.route = "/signup"]
    /\ UNCHANGED <<backendVars, auth, gate, pager>>

\* finally { setDeleting(false) }
FlowFinally ==
    /\ flow.pc = "finally"
    /\ flow' = [flow EXCEPT !.pc = "idle", !.deleting = FALSE]
    /\ UNCHANGED <<backendVars, auth, gate, pager>>

InitAccount ==
    /\ ShopAtRest
    /\ accounts = Users
    /\ handler = IdleHandler
    /\ dash = EmptyDashboard
    /\ ClientAtRest

NextAccount ==
    \/ \E confirmed \in BOOLEAN : ClickDeleteAccount(confirmed)
    \/ \E error \in BOOLEAN, user \in {""} \cup Users : FlowGetUser(error, user)
    \/ \E error \in BOOLEAN, token \in {""} \cup Tokens : FlowGetSession(error, token)
    \/ InvokeFunction
    \/ \E fnError \in BOOLEAN : InvokeReturns(fnError)
    \/ \E error \in BOOLEAN : FlowSignOut(error)
    \/ NavigateToSignup
    \/ FlowFinally

SpecAccount == InitAccount /\ [][NextAccount]_vars

ItemsPerPage == 15

Min(a, b) == IF a < b THEN a ELSE b
Max(a, b) == IF a > b THEN a ELSE b

\* Math.ceil(n / d)
Ceil(n, d) == (n + d - 1) \div d

\* filteredSales.length, filteredProducts.length
FilteredCount(pg) ==
    IF pg.searchOn \/ pg.dateOn THEN pg.matching ELSE pg.matching + pg.other

TotalPages(pg) == Ceil(FilteredCount(pg), ItemsPerPage)

\* SalesList renders the controls only when totalPages > 1; InventoryList
\* always renders them
ControlsShown(pg) == pg.list = "InventoryList" \/ TotalPages(pg) > 1

\* the search input: SalesList also sets the page to 1, InventoryList only
\* sets the term
SetSearchTerm(on) ==
    /\ pager.searchOn # on
    /\ pager' = [pager EXCEPT
          !.searchOn = on,
          !.currentPage = IF pager.list = "SalesList" THEN 1 ELSE @]
    /\ UNCHANGED <<backendVars, auth, gate, flow>>

\* the start-date and end-date inputs of SalesList
SetDateFilter(on) ==
    /\ pager.list = "SalesList"
    /\ pager.dateOn # on
    /\ pager' = [pager EXCEPT !.dateOn = on, !.currentPage = 1]
    /\ UNCHANGED <<backendVars, auth, gate, flow>>

\* Previous: disabled on page 1
PrevPage ==
    /\ ControlsShown(pager)
    /\ pager.currentPage # 1
    /\ pager' = [pager EXCEPT !.currentPage = Max(@ - 1, 1)]
    /\ UNCHANGED <<backendVars, auth, gate, flow>>

\* Next: disabled on the page whose number is totalPages
NextPage ==
    /\ ControlsShown(pager)
    /\ pager.currentPage # TotalPages(pager)
    /\ pager' = [pager EXCEPT !.currentPage = Min(@ + 1, TotalPages(pager))]
    /\ UNCHANGED <<backendVars, auth, gate, flow>>

\* a record was added through the form: SalesList reloads and sets the page
\* to 1, InventoryList reloads
AddRecord(kind) ==
    /\ pager.matching + pager.other < MaxRows
    /\ pager' = [pager EXCEPT
          !.matching = IF kind = "matching" THEN @ + 1 ELSE @,
          !.other = IF kind = "other" THEN @ + 1 ELSE @,
          !.currentPage = IF pager.list = "SalesList" THEN 1 ELSE @]
    /\ UNCHANGED <<backendVars, auth, gate, flow>>

\* handleDelete of a row on screen: the list reloads, the page stays
DeleteRecord(kind) ==
    /\ kind = "matching" => pager.matching > 0
    /\ kind = "other" => (pager.other > 0 /\ ~pager.searchOn /\ ~pager.dateOn)
    /\ pager' = [pager EXCEPT
          !.matching = IF kind = "matching" THEN @ - 1 ELSE @,
          !.other = IF kind = "other" THEN @ - 1 ELSE @]
    /\ UNCHANGED <<backendVars, auth, gate, flow>>

\* a list on screen after its first load
InitPages ==
    /\ ShopAtRest
    /\ accounts = Users
    /\ handler = IdleHandler
    /\ dash = EmptyDashboard
    /\ auth = [session |-> NoSession, events |-> 0]
    /\ gate = [g \in Guards |-> UnmountedGate]
    /\ flow = IdleFlow
    /\ \E list \in Lists, m \in 0..MaxRows, o \in 0..MaxRows :
          /\ m + o <= MaxRows
          /\ pager = [EmptyPager(list) EXCEPT !.matching = m, !.other = o]

NextPages ==
    \/ \E on \in BOOLEAN : SetSearchTerm(on)
    \/ \E on \in BOOLEAN : SetDateFilter(on)
    \/ PrevPage
    \/ NextPage
    \/ \E kind \in {"matching", "other"} : AddRecord(kind)
    \/ \E kind \in {"matching", "other"} : DeleteRecord(kind)

SpecPages == InitPages /\ [][NextPages]_vars

\* C29: in both lists, whatever the filter changes, page clicks, additions
\* and deletions, the current page is at least 1 and at most the greater of
\* 1 and the number of pages of the filtered rows.
C29_PageInRange ==
    /\ 1 <= pager.currentPage
    /\ pager.currentPage <= Max(1, TotalPages(pager))

============================================================================
